---- MODULE Spec2Model ----
(***************************************************************************)
(* A model of botlog: the leveled logging API of BotLogger (info, debug,   *)
(* warning, error, event), the console-only routing decision, target       *)
(* resolution, the delivery of embeds, the event renderers with the diff   *)
(* engine, and the bounded queue with its drain loop (log_from_queue).     *)
(*                                                                         *)
(* The discord client (get_channel, get_owner, target.send), the console   *)
(* logger and asyncio.Queue are collaborators: what they return or raise   *)
(* is chosen nondeterministically (the record env of each handling).       *)
(***************************************************************************)
EXTENDS Integers, Sequences, FiniteSets, TLC

(* ---------------------------- bounds ---------------------------------- *)
\* log calls explored in one behaviour
MaxCalls == 1
\* the clock saturates here (timestamps are 1..MaxClock)
MaxClock == 2
\* the attribute lists given to get_object_diff have at most this length
MaxAttrs == 2

(* ----------------------- program constants ---------------------------- *)
maxsize == 1000
TracebackLimit == 1992
DEFAULT_LOG_SEND == FALSE
DEFAULT_ERROR_LOG_SEND == TRUE

(* ------------------------ python values ------------------------------- *)
\* A keyword bag (**kwargs) is a function whose domain is the keys given.
NoKwargs == [k \in {} |-> 0]
Get(kw, k, d) == IF k \in DOMAIN kw THEN kw[k] ELSE d
Pop(kw, key) == [k \in DOMAIN kw \ {key} |-> kw[k]]
Put(kw, key, val) == [k \in DOMAIN kw \cup {key} |-> IF k = key THEN val ELSE kw[k]]

\* Attribute values of the platform's objects, tagged with their type.
PyNone == [t |-> "none"]
Str(s) == [t |-> "str", v |-> s]
List(l) == [t |-> "list", v |-> l]
\* `is not None` in the place of truthiness
Truthy_not_none(x) == x.t # "none"

Truthy(x) ==
    CASE x.t = "none" -> FALSE
      [] x.t = "str" -> x.v # ""
      [] x.t = "list" -> x.v # <<>>
PyEq(a, b) == a.t = b.t /\ (a.t # "none" => a.v = b.v)
\* getattr(obj, attr, None)
GetAttr(obj, attr) ==
    IF obj = PyNone THEN PyNone
    ELSE IF attr \in DOMAIN obj THEN obj[attr] ELSE PyNone
\* str.upper() and str.lower() on the strings the program applies them to
Upper(s) ==
    CASE s = "info" -> "INFO" [] s = "debug" -> "DEBUG"
      [] s = "warning" -> "WARNING" [] s = "error" -> "ERROR"
      [] s = "event" -> "EVENT" [] s = "nick" -> "NICK"
      [] s = "roles" -> "ROLES" [] s = "status" -> "STATUS"
      [] s = "avatar" -> "AVATAR" [] s = "avatar_url" -> "AVATAR_URL"
      [] OTHER -> s
Lower(s) ==
    CASE s = "INFO" -> "info" [] s = "DEBUG" -> "debug"
      [] s = "WARNING" -> "warning" [] s = "ERROR" -> "error"
      [] s = "EVENT" -> "event" [] s = "Info" -> "info"
      [] OTHER -> s

(* -------------------------- embed.py ---------------------------------- *)
Levels == {"info", "debug", "warning", "event", "error"}
NoEmbed == [kind |-> "none"]
NoTimestamp == [set |-> FALSE]
Timestamp(t) == [set |-> TRUE, at |-> t]

\* LogEmbed.__init__ for the subclass with this title and color
LogEmbed(title, color, message) ==
    [kind |-> "embed", title |-> Upper(title), description |-> message,
     color |-> color, timestamp |-> NoTimestamp, fields |-> <<>>]

\* generate_log_embed without level.lower()
generate_log_embed_case_sensitive(message, level) ==
    CASE level = "info" -> [raised |-> FALSE, embed |-> LogEmbed("info", "green", message)]
      [] level = "debug" -> [raised |-> FALSE, embed |-> LogEmbed("debug", "dark_green", message)]
      [] level = "warning" -> [raised |-> FALSE, embed |-> LogEmbed("warning", "gold", message)]
      [] level = "error" -> [raised |-> FALSE, embed |-> LogEmbed("error", "red", message)]
      [] level = "event" -> [raised |-> FALSE, embed |-> LogEmbed("event", "blurple", message)]
      [] OTHER -> [raised |-> TRUE, embed |-> NoEmbed]

\* generate_log_embed: [raised |-> TRUE] stands for ValueError
generate_log_embed(message, level) ==
    LET lvl == Lower(level) IN
    CASE lvl = "info" -> [raised |-> FALSE, embed |-> LogEmbed("info", "green", message)]
      [] lvl = "debug" -> [raised |-> FALSE, embed |-> LogEmbed("debug", "dark_green", message)]
      [] lvl = "warning" -> [raised |-> FALSE, embed |-> LogEmbed("warning", "gold", message)]
      [] lvl = "error" -> [raised |-> FALSE, embed |-> LogEmbed("error", "red", message)]
      [] lvl = "event" -> [raised |-> FALSE, embed |-> LogEmbed("event", "blurple", message)]
      [] OTHER -> [raised |-> TRUE, embed |-> NoEmbed]

\* discord.Embed.add_field
add_field(embed, name, value) ==
    [embed EXCEPT !.fields = Append(@, [name |-> name, value |-> value])]

(* ------------------------- diff engine -------------------------------- *)
\* the items of s at the places in `places`, in the order of s
RECURSIVE items_in_order(_, _)
items_in_order(s, places) ==
    IF places = {} THEN <<>>
    ELSE LET i == CHOOSE x \in places : \A y \in places : x <= y
         IN <<s[i]>> \o items_in_order(s, places \ {i})

\* get_object_diff: the dict it builds, as the sequence of its items in
\* insertion order
get_object_diff(before, after, attrs_to_check) ==
    LET entry(i) == [attr |-> attrs_to_check[i],
                     before |-> GetAttr(before, attrs_to_check[i]),
                     after |-> GetAttr(after, attrs_to_check[i])]
        \* result[attr] = ... on a key that is there keeps the key's place
        all == [i \in 1..Len(attrs_to_check) |-> entry(i)]
        first(i) == \A j \in 1..(i - 1) : attrs_to_check[j] # attrs_to_check[i]
        kept == {i \in 1..Len(attrs_to_check) :
                    /\ Truthy(all[i].after)
                    /\ Truthy(all[i].before)
                    /\ ~PyEq(all[i].before, all[i].after)
                    /\ first(i)}
    IN items_in_order(all, kept)

\* ",".join(str(o) for o in list_diff): the strings joined, kept as their
\* set because the order in which a Python set gives its elements is not
\* fixed
Joined(S) == [joined |-> {ToString(o) : o \in S}]

Elems(l) == {l[i] : i \in 1..Len(l)}

\* add_diff_fields with the difference after - before for the symmetric one
RECURSIVE add_diff_fields_one_sided(_, _)
add_diff_fields_one_sided(embed, diff) ==
    IF diff = <<>> THEN embed
    ELSE
      LET d == Head(diff)
          attru == Upper(d.attr)
          action == IF Len(d.before.v) < Len(d.after.v) THEN "added" ELSE "removed"
          list_diff == Elems(d.after.v) \ Elems(d.before.v)
          one == add_field(embed, attru \o " " \o action, Joined(list_diff))
          two == add_field(add_field(embed, attru \o " (before)", d.before),
                           attru \o " (after)", d.after)
      IN add_diff_fields_one_sided(IF d.before.t = "list" THEN one ELSE two, Tail(diff))

RECURSIVE add_diff_fields(_, _)
add_diff_fields(embed, diff) ==
    IF diff = <<>> THEN embed
    ELSE
      LET d == Head(diff)
          attru == Upper(d.attr)
          action == IF Len(d.before.v) < Len(d.after.v) THEN "added" ELSE "removed"
          list_diff == (Elems(d.after.v) \ Elems(d.before.v))
                         \cup (Elems(d.before.v) \ Elems(d.after.v))
          one == add_field(embed, attru \o " " \o action, Joined(list_diff))
          two == add_field(add_field(embed, attru \o " (before)", d.before),
                           attru \o " (after)", d.after)
      IN add_diff_fields(IF d.before.t = "list" THEN one ELSE two, Tail(diff))

(* ------------------------ event renderers ----------------------------- *)
\* the result of a renderer: a (message, embed) pair, or an exception
Rendered(message, embed) == [raised |-> FALSE, message |-> message, embed |-> embed]
RenderRaised == [raised |-> TRUE, message |-> PyNone, embed |-> NoEmbed]

get_server_text(upper_object) ==
    LET guild == GetAttr(upper_object, "guild") IN
    IF guild # PyNone
    THEN guild.name \o " (" \o ToString(guild.id) \o ")"
    ELSE "DM"

render_default_event(kwargs) ==
    LET message == "New event: " \o Get(kwargs, "event_type", "None")
    IN Rendered(Str(message), generate_log_embed(message, "event").embed)

member_update_attrs == <<"avatar_url", "avatar", "nick", "roles", "status">>

\* the renderer without the check of the diff
render_member_update_event_no_check(kwargs) ==
    LET before == Get(kwargs, "before", PyNone)
        after == Get(kwargs, "after", PyNone)
        server_text == get_server_text(before)
        diff == get_object_diff(before, after, member_update_attrs)
    IN
    IF before = PyNone \/ GetAttr(before, "guild") = PyNone THEN RenderRaised
    ELSE
      LET message == "Member with ID " \o ToString(before.id)
                       \o " was updated in guild with ID " \o ToString(before.guild.id)
          e0 == generate_log_embed(message, "event").embed
          e1 == add_diff_fields(e0, diff)
          e2 == add_field(e1, "Member", before)
          e3 == add_field(e2, "Server", server_text)
      IN Rendered(Str(message), e3)

render_member_update_event(kwargs) ==
    LET before == Get(kwargs, "before", PyNone)
        after == Get(kwargs, "after", PyNone)
        server_text == get_server_text(before)
        diff == get_object_diff(before, after, member_update_attrs)
    IN
    \* before.id and before.guild.id raise AttributeError on a missing object
    IF before = PyNone \/ GetAttr(before, "guild") = PyNone THEN RenderRaised
    ELSE
      LET message == "Member with ID " \o ToString(before.id)
                       \o " was updated in guild with ID " \o ToString(before.guild.id)
          e0 == generate_log_embed(message, "event").embed
          e1 == add_diff_fields(e0, diff)
          e2 == add_field(e1, "Member", before)
          e3 == add_field(e2, "Server", server_text)
      IN IF diff # <<>> THEN Rendered(Str(message), e3)
         ELSE Rendered(PyNone, NoEmbed)

\* the render_<event_type>_event methods the model's event types can select
Renderers == {"render_default_event", "render_member_update_event"}

CallRenderer(name, kwargs) ==
    IF name = "render_member_update_event"
    THEN render_member_update_event(kwargs)
    ELSE render_default_event(kwargs)

\* One console emission.
Line(level, msg) == [level |-> level, msg |-> msg]

\* the try statement that logs a renderer's exception and does not fall back
render_or_default_no_fallback(r, d) ==
    IF r.raised
    THEN [message |-> r.message, embed |-> r.embed,
          console |-> <<Line("error", "Could not render event data")>>]
    ELSE [message |-> r.message, embed |-> r.embed, console |-> <<>>]

\* the try statement of generate_event_data: r is what the selected renderer
\* did, d what render_default_event gives
render_or_default(r, d) ==
    IF r.raised
    THEN [message |-> d.message, embed |-> d.embed,
          console |-> <<Line("error", "Could not render event data")>>]
    ELSE [message |-> r.message, embed |-> r.embed, console |-> <<>>]

\* generate_event_data: the dict it returns, and the console lines it wrote
generate_event_data(event_type, kwargs) ==
    LET render_func_name == "render_" \o event_type \o "_event"
        render_func == IF render_func_name \in Renderers
                       THEN render_func_name ELSE "render_default_event"
        kw == Put(kwargs, "event_type", event_type)
    IN render_or_default(CallRenderer(render_func, kw), render_default_event(kw))

(* ------------------------ dispatch core ------------------------------- *)
\* what the discord client and the target do during one handling
\* (a field is "ok"/"user" where the call it stands for cannot happen: no
\* get_owner once the channel is found, no send without a target, no second
\* send after a failed first one)
Envs ==
    {e \in [channel : {"found", "none"},
            owner : {"user", "none", "raise"},
            send1 : {"ok", "Forbidden", "HTTPException"},
            send2 : {"ok", "Forbidden", "HTTPException"}] :
        /\ e.channel = "found" => e.owner = "user"
        /\ e.owner # "user" => e.send1 = "ok"
        /\ e.send1 # "ok" => e.send2 = "ok"}

NoTarget == [kind |-> "none"]
Channel(id) == [kind |-> "channel", id |-> id, guild_owner_mention |-> "<@guild-owner>"]
Owner == [kind |-> "user", mention |-> "<@bot-owner>"]

NoContent == [kind |-> "none"]
Mention(m) == [kind |-> "mention", text |-> m]
CodeBlock(n) == [kind |-> "codeblock", chars |-> n]

\* bot.get_channel(int(channel_id)) and await bot.get_owner()
get_channel(id, env) == IF env.channel = "found" THEN Channel(id) ELSE NoTarget
get_owner(env) == IF env.owner = "user" THEN Owner ELSE NoTarget
\* history of one lookup: the call and how it ended
LookupChannel(id, env) == [fn |-> "get_channel", arg |-> id, result |-> env.channel]
LookupOwner(env) == [fn |-> "get_owner", arg |-> 0, result |-> env.owner]

\* one call of target.send and how it ended
Transmission(target, content, embed, outcome) ==
    [target |-> target, content |-> content, embed |-> embed, outcome |-> outcome]

\* what a handler did: console lines, lookups, transmissions and the
\* exception that left it ("none" when it returned)
Handled(console, lookups, sent, exc) ==
    [console |-> console, lookups |-> lookups, sent |-> sent, exc |-> exc]

\* the console logger set to WARNING instead of INFO outside debug mode
Emit_warning_level(debug, level, msg) ==
    IF level \in {"debug", "info"} /\ ~debug THEN <<>> ELSE <<Line(level, msg)>>

\* the console logger: debug lines pass only when basicConfig set DEBUG
Emit(debug, level, msg) ==
    IF level = "debug" /\ ~debug THEN <<>> ELSE <<Line(level, msg)>>

\* is_console_only without the check of the global flag
is_console_only_no_global(send_enabled, kwargs, is_error) ==
    LET default_send == IF is_error THEN DEFAULT_ERROR_LOG_SEND
                        ELSE DEFAULT_LOG_SEND
    IN ~Get(kwargs, "send", default_send)

is_console_only(send_enabled, kwargs, is_error) ==
    IF ~send_enabled THEN TRUE
    ELSE LET default_send == IF is_error THEN DEFAULT_ERROR_LOG_SEND
                             ELSE DEFAULT_LOG_SEND
         IN ~Get(kwargs, "send", default_send)

\* `if channel_id` on kwargs.get("channel", None)
HasChannel(kwargs) == "channel" \in DOMAIN kwargs /\ kwargs["channel"] # 0

\* the send with `except Exception: pass`
SendEmbed_catch_all(target, embed, env) ==
    [sent |-> <<Transmission(target, NoContent, embed, env.send1)>>,
     exc |-> "none"]

\* try: await target.send(embed=embed) / except discord.Forbidden: pass
SendEmbed(target, embed, env) ==
    [sent |-> <<Transmission(target, NoContent, embed, env.send1)>>,
     exc |-> IF env.send1 \in {"ok", "Forbidden"} THEN "none" ELSE env.send1]

\* target resolution shared by handle_generic_log and handle_event_log:
\* the lookups made, the target, and whether get_owner raised
Resolve(kwargs, env) ==
    LET channel == IF HasChannel(kwargs) THEN get_channel(kwargs["channel"], env)
                   ELSE NoTarget
        lk == IF HasChannel(kwargs) THEN <<LookupChannel(kwargs["channel"], env)>>
              ELSE <<>>
    IN IF channel # NoTarget
       THEN [lookups |-> lk, target |-> channel, raised |-> FALSE]
       ELSE [lookups |-> Append(lk, LookupOwner(env)), target |-> get_owner(env),
             raised |-> env.owner = "raise"]

\* what a handler does with the result s of its try statement
Sent(c, lookups, s) == Handled(c, lookups, s.sent, s.exc)

\* handle_generic_log from the target resolution on: c0 is what the console
\* got, r the resolution
send_generic_log(c0, level_, embed, r, env) ==
    IF r.raised THEN Handled(c0, r.lookups, <<>>, "LookupError")
    ELSE IF r.target = NoTarget
      THEN Handled(c0 \o <<Line("warning",
                     "Could not determine Discord target to send " \o level_ \o " log")>>,
                   r.lookups, <<>>, "none")
    ELSE Sent(c0, r.lookups, SendEmbed(r.target, embed, env))

handle_generic_log(cfg, message, level_, kwargs, env, now) ==
    LET console_only == is_console_only(cfg.send, kwargs, FALSE)
        c0 == Emit(cfg.debug_mode, level_, message)
        embed == [generate_log_embed(message, level_).embed
                    EXCEPT !.timestamp = Timestamp(Get(kwargs, "time", now))]
    IN
    IF console_only THEN Handled(c0, <<>>, <<>>, "none")
    ELSE send_generic_log(c0, level_, embed, Resolve(kwargs, env), env)

\* handle_event_log from the target resolution on: c1 is what the console
\* got, r the resolution
send_event_log(c1, event_embed, kwargs, r, env, now) ==
    IF r.raised THEN Handled(c1, r.lookups, <<>>, "LookupError")
    ELSE IF r.target = NoTarget
      THEN Handled(c1 \o <<Line("warning",
                     "Could not determine Discord target to send EVENT log")>>,
                   r.lookups, <<>>, "none")
    ELSE IF event_embed = NoEmbed THEN Handled(c1, r.lookups, <<>>, "none")
    ELSE Sent(c1, r.lookups,
              SendEmbed(r.target,
                        [event_embed
                           EXCEPT !.timestamp = Timestamp(Get(kwargs, "time", now))],
                        env))

\* handle_event_log once generate_event_data returned event_data
log_event_data(cfg, event_data, kwargs, env, now) ==
    IF ~Truthy(event_data.message) THEN Handled(event_data.console, <<>>, <<>>, "none")
    ELSE IF is_console_only(cfg.send, kwargs, FALSE)
      THEN Handled(event_data.console \o <<Line("info", event_data.message.v)>>,
                   <<>>, <<>>, "none")
    ELSE send_event_log(event_data.console \o <<Line("info", event_data.message.v)>>,
                        event_data.embed, kwargs, Resolve(kwargs, env), env, now)

handle_event_log(cfg, event_type, kwargs, env, now) ==
    log_event_data(cfg, generate_event_data(event_type, kwargs), kwargs, env, now)

Min(a, b) == IF a < b THEN a ELSE b

\* the two sends of handle_error_log in the other order
SendError_block_first(target, content, embed, chars, env) ==
    LET first == Transmission(target, CodeBlock(chars), NoEmbed, env.send1)
        second == Transmission(target, content, embed, env.send2)
    IN IF env.send1 = "Forbidden" THEN [sent |-> <<first>>, exc |-> "none"]
       ELSE IF env.send1 # "ok" THEN [sent |-> <<first>>, exc |-> env.send1]
       ELSE [sent |-> <<first, second>>,
             exc |-> IF env.send2 \in {"ok", "Forbidden"} THEN "none" ELSE env.send2]

\* the try statement of handle_error_log: the embed, then the code block;
\* discord.Forbidden from either send is passed over
SendError(target, content, embed, chars, env) ==
    LET first == Transmission(target, content, embed, env.send1)
        second == Transmission(target, CodeBlock(chars), NoEmbed, env.send2)
    IN IF env.send1 = "Forbidden" THEN [sent |-> <<first>>, exc |-> "none"]
       ELSE IF env.send1 # "ok" THEN [sent |-> <<first>>, exc |-> env.send1]
       ELSE [sent |-> <<first, second>>,
             exc |-> IF env.send2 \in {"ok", "Forbidden"} THEN "none" ELSE env.send2]

\* a critical error that always mentions the bot's owner
critical_content_bot_owner(critical, channel, owner) ==
    IF ~critical THEN NoContent ELSE Mention(owner.mention)

\* "tag user if critical": the content of the first send
critical_content(critical, channel, owner) ==
    IF ~critical THEN NoContent
    ELSE IF channel # NoTarget THEN Mention(channel.guild_owner_mention)
    ELSE Mention(owner.mention)

handle_error_log(cfg, message, kwargs, env, now) ==
    LET critical == Get(kwargs, "critical", FALSE)
        console_only == is_console_only(cfg.send, kwargs, TRUE)
        c0 == <<Line("error", message)>>
        \* exception_string[:1992], by its length
        exception_chars == Min(kwargs["exception"].tb_len, TracebackLimit)
        embed == [generate_log_embed(message, "error").embed
                    EXCEPT !.timestamp = Timestamp(Get(kwargs, "time", now))]
        channel == IF HasChannel(kwargs) THEN get_channel(kwargs["channel"], env)
                   ELSE NoTarget
        lk == IF HasChannel(kwargs) THEN <<LookupChannel(kwargs["channel"], env)>>
              ELSE <<>>
        owner == get_owner(env)
        target == IF channel # NoTarget THEN channel ELSE owner
        lookups == IF channel # NoTarget THEN lk ELSE Append(lk, LookupOwner(env))
        content == critical_content(critical, channel, owner)
    IN
    IF console_only THEN Handled(c0, <<>>, <<>>, "none")
    \* exception.__traceback__ on a missing exception
    ELSE IF "exception" \notin DOMAIN kwargs THEN Handled(c0, <<>>, <<>>, "AttributeError")
    ELSE IF channel = NoTarget /\ env.owner = "raise"
      THEN Handled(c0, lookups, <<>>, "LookupError")
    \* target.mention on a missing owner
    ELSE IF channel = NoTarget /\ owner = NoTarget /\ critical
      THEN Handled(c0, lookups, <<>>, "AttributeError")
    ELSE IF target = NoTarget
      THEN Handled(c0 \o <<Line("warning",
                     "Could not determine Discord target to send ERROR log")>>,
                   lookups, <<>>, "none")
    ELSE Sent(c0, lookups, SendError(target, content, embed, exception_chars, env))

(* --------------------------- the queue -------------------------------- *)
\* DelayedLog.__init__: kwargs["time"] is set to utcnow(), whatever the
\* caller gave.  call is history: the call that made the record (its number,
\* the arguments as the caller gave them, the clock at the call).
DelayedLog(level, log_message, kwargs, now, call) ==
    [level |-> level, message |-> log_message,
     kwargs |-> Put(kwargs, "time", now), call |-> call]

\* handle_queue_log on the record it dequeued
handle_queue_log(cfg, log_data, env, now) ==
    CASE log_data.level \in {"info", "debug", "warning"} ->
           handle_generic_log(cfg, log_data.message, log_data.level,
                              log_data.kwargs, env, now)
      [] log_data.level = "event" ->
           LET event_type == Get(log_data.kwargs, "event_type", "")
           IN IF event_type = ""
              THEN Handled(<<>>, <<>>, <<>>, "AttributeError")
              ELSE handle_event_log(cfg, event_type,
                                    Pop(log_data.kwargs, "event_type"), env, now)
      [] log_data.level = "error" ->
           handle_error_log(cfg, log_data.message, log_data.kwargs, env, now)
      [] OTHER ->
           Handled(<<Line("warning", "Received unprocessable log level")>>,
                   <<>>, <<>>, "none")

(* ---------------------------- inputs ---------------------------------- *)
\* the tasks that call the logger
Producers == 1..2
Message == "m"

\* two snapshots of a member: M2 differs from M1 in nick and roles
Guild == [id |-> 2, name |-> "G"]
M1 == [id |-> 1, guild |-> Guild, nick |-> Str("A"), roles |-> List(<<1, 2>>),
       status |-> Str("")]
M2 == [id |-> 1, guild |-> Guild, nick |-> Str("B"), roles |-> List(<<1, 2, 3>>),
       status |-> Str("online")]

SendOpts == {NoKwargs} \cup {[send |-> b] : b \in BOOLEAN}
ChannelOpts == {NoKwargs, [channel |-> 10]}
\* a caller's timestamp: earlier than every value of the clock
TimeOpts == {NoKwargs, [time |-> 0]}
CriticalOpts == {NoKwargs} \cup {[critical |-> b] : b \in BOOLEAN}
\* the keyword options the callers of one run pass
Options == {a @@ b @@ c @@ d : a \in SendOpts, b \in ChannelOpts,
                               c \in TimeOpts, d \in CriticalOpts}
ExceptionOpts == {NoKwargs, [exception |-> [tb_len |-> 2000]]}
EventInputs ==
    {[event_type |-> "", payload |-> NoKwargs],
     [event_type |-> "foo", payload |-> NoKwargs],
     [event_type |-> "member_update", payload |-> NoKwargs],
     [event_type |-> "member_update", payload |-> [before |-> M1, after |-> M1]],
     [event_type |-> "member_update", payload |-> [before |-> M1, after |-> M2]]}

(* ---------------------------- state ----------------------------------- *)
VARIABLES
    debug_mode,   \* BotLogger.debug_mode
    queue_wait,   \* BotLogger.queue_wait, as "is queuing enabled"
    send,         \* BotLogger.send, the global send flag
    opts,         \* the keyword options (send, channel, time, critical) of the
                  \* callers of this run
    send_queue,   \* BotLogger.send_queue: the pending DelayedLog records
    putters,      \* the producers suspended in send_queue.put, with their record
    drain,        \* the log_from_queue task: where it is (pc), and as history
                  \* the records it got, the sleeps it ended, the exceptions
                  \* it caught
    clock,        \* datetime.utcnow()
    ncalls,       \* history: the log calls made so far
    lastcall,     \* history: the latest log call and how it ended for its caller
    last,         \* history: the latest handling of a log and what it did
    applied       \* a function of the library applied on its own: its name, its
                  \* arguments and, once it returned, its result

vars == <<debug_mode, queue_wait, send, opts, send_queue, putters, drain, clock,
          ncalls, lastcall, last, applied>>

config == [debug_mode |-> debug_mode, queue_wait |-> queue_wait, send |-> send]

NoLog == [level |-> "none"]
NoCall == [id |-> 0]
NoHandling == [id |-> 0]
NoApplication == [fn |-> "none"]

\* BotLogger.__init__
Init ==
    /\ debug_mode \in BOOLEAN
    /\ queue_wait \in BOOLEAN
    /\ send \in BOOLEAN
    /\ opts \in Options
    /\ send_queue = <<>>
    /\ putters = [p \in Producers |-> NoLog]
    /\ drain = [pc |-> IF queue_wait THEN "get" ELSE "off", dequeues |-> 0, sleeps |-> 0,
                caught |-> 0]
    /\ clock = 1
    /\ ncalls = 0
    /\ lastcall = NoCall
    /\ last = NoHandling
    /\ applied = NoApplication

\* the history record of one handling
Handling(call, queued, level, kwargs, h, loop_console, at) ==
    [id |-> call.id, call |-> call, queued |-> queued, level |-> level,
     kwargs |-> kwargs, console |-> h.console, lookups |-> h.lookups,
     sent |-> h.sent, exc |-> h.exc, loop_console |-> loop_console, at |-> at]

Called(call, level, outcome) ==
    [id |-> call.id, level |-> level, kwargs |-> call.kwargs, at |-> call.at,
     outcome |-> outcome]

NewCall(kwargs) == [id |-> ncalls + 1, kwargs |-> kwargs, at |-> clock]

\* full() of a queue made without maxsize
full_unbounded(q) == FALSE

\* asyncio.Queue.full()
full(q) == Len(q) >= maxsize

\* await self.send_queue.put(record): asyncio.Queue.put suspends the caller
\* while the queue is full
put(p, record) ==
    IF ~full(send_queue)
    THEN /\ send_queue' = Append(send_queue, record)
         /\ putters' = putters
         /\ lastcall' = Called(record.call, record.level, "returned")
    ELSE /\ send_queue' = send_queue
         /\ putters' = [putters EXCEPT ![p] = record]
         /\ lastcall' = Called(record.call, record.level, "suspended")

\* the caller runs the handler itself (queuing disabled)
Direct(call, level, kwargs, h) ==
    /\ last' = Handling(call, FALSE, level, kwargs, h, <<>>, clock)
    /\ lastcall' = Called(call, level, IF h.exc = "none" THEN "returned" ELSE "raised")
    /\ UNCHANGED <<send_queue, putters>>

\* the tasks are interchangeable: the lowest-numbered one that is not
\* suspended makes the next call
CanCall(p) ==
    /\ putters[p] = NoLog
    /\ \A q \in Producers : putters[q] = NoLog => p <= q
    /\ ncalls < MaxCalls

\* info, debug (debug mode on) and warning: the same code but for the level
GenericCall(p, level, kwargs) ==
    /\ CanCall(p)
    /\ ncalls' = ncalls + 1
    /\ IF queue_wait
       THEN /\ put(p, DelayedLog(level, Message, kwargs, clock, NewCall(kwargs)))
            /\ last' = last
       ELSE \E env \in Envs :
              Direct(NewCall(kwargs), level, kwargs,
                     handle_generic_log(config, Message, level, kwargs, env, clock))
    /\ UNCHANGED <<applied, debug_mode, queue_wait, send, opts, drain, clock>>

info(p, kwargs) == GenericCall(p, "info", kwargs)

warning(p, kwargs) == GenericCall(p, "warning", kwargs)

\* debug without the check of debug_mode
debug_unguarded(p, kwargs) == GenericCall(p, "debug", kwargs)

debug(p, kwargs) ==
    IF ~debug_mode
    THEN /\ CanCall(p)
         /\ ncalls' = ncalls + 1
         /\ lastcall' = Called(NewCall(kwargs), "debug", "returned")
         /\ UNCHANGED <<applied, debug_mode, queue_wait, send, opts, send_queue, putters,
                        drain, clock, last>>
    ELSE GenericCall(p, "debug", kwargs)

event(p, event_type, kwargs) ==
    /\ CanCall(p)
    /\ ncalls' = ncalls + 1
    /\ IF queue_wait
       THEN /\ put(p, DelayedLog("event", "", Put(kwargs, "event_type", event_type),
                                 clock, NewCall(Put(kwargs, "event_type", event_type))))
            /\ last' = last
       ELSE \E env \in Envs :
              Direct(NewCall(Put(kwargs, "event_type", event_type)), "event", kwargs,
                     handle_event_log(config, event_type, kwargs, env, clock))
    /\ UNCHANGED <<applied, debug_mode, queue_wait, send, opts, drain, clock>>

error(p, kwargs) ==
    /\ CanCall(p)
    /\ ncalls' = ncalls + 1
    /\ IF queue_wait
       THEN /\ put(p, DelayedLog("error", Message, kwargs, clock, NewCall(kwargs)))
            /\ last' = last
       ELSE \E env \in Envs :
              Direct(NewCall(kwargs), "error", kwargs,
                     handle_error_log(config, Message, kwargs, env, clock))
    /\ UNCHANGED <<applied, debug_mode, queue_wait, send, opts, drain, clock>>

\* a producer suspended in put resumes once the queue has room
PutResume(p) ==
    /\ putters[p] # NoLog
    /\ ~full(send_queue)
    /\ send_queue' = Append(send_queue, putters[p])
    /\ putters' = [putters EXCEPT ![p] = NoLog]
    /\ UNCHANGED <<applied, debug_mode, queue_wait, send, opts, drain, clock, ncalls,
                   lastcall, last>>

\* what log_from_queue prints when handle_queue_log raised
LoopConsole(exc) ==
    IF exc = "none" THEN <<>>
    ELSE <<Line("error", "Could not read from log queue: " \o exc)>>

\* log_from_queue without the except clause: an exception ends the task
AfterHandling_uncaught(exc) == IF exc = "none" THEN "sleep" ELSE "dead"

\* log_from_queue with the sleep inside the try block: skipped on an exception
AfterHandling_sleep_in_try(exc) == IF exc = "none" THEN "sleep" ELSE "get"

\* where log_from_queue goes after the try statement
AfterHandling(exc) == "sleep"

\* a drain loop that puts the record back when its handling raised
Drained_requeue(log_data, h) ==
    /\ send_queue' = IF h.exc = "none" THEN Tail(send_queue)
                     ELSE Append(Tail(send_queue), log_data)
    /\ last' = Handling(log_data.call, TRUE, log_data.level, log_data.kwargs,
                        h, LoopConsole(h.exc), clock)
    /\ drain' = [drain EXCEPT !.pc = AfterHandling(h.exc),
                              !.dequeues = @ + 1,
                              !.caught = IF h.exc = "none" THEN @ ELSE @ + 1]

\* the record log_data left the queue and handle_queue_log ended as h
Drained(log_data, h) ==
    /\ send_queue' = Tail(send_queue)
    /\ last' = Handling(log_data.call, TRUE, log_data.level, log_data.kwargs,
                        h, LoopConsole(h.exc), clock)
    /\ drain' = [drain EXCEPT !.pc = AfterHandling(h.exc),
                              !.dequeues = @ + 1,
                              !.caught = IF h.exc = "none" THEN @ ELSE @ + 1]

\* one pass of the try statement of log_from_queue: handle_queue_log gets a
\* record and handles it; an exception is caught and printed.  (The model
\* follows the loop for one record more than the calls it explores.)
log_from_queue(env) ==
    /\ drain.pc = "get"
    /\ send_queue # <<>>
    /\ drain.dequeues <= MaxCalls
    /\ Drained(Head(send_queue),
               handle_queue_log(config, Head(send_queue), env, clock))
    /\ UNCHANGED <<applied, debug_mode, queue_wait, send, opts, putters, clock, ncalls,
                   lastcall>>

\* await asyncio.sleep(self.queue_wait) ends; the sleep took time
sleep ==
    /\ drain.pc = "sleep"
    /\ drain' = [drain EXCEPT !.pc = "get", !.sleeps = @ + 1]
    /\ clock' = IF clock < MaxClock THEN clock + 1 ELSE clock
    /\ UNCHANGED <<applied, debug_mode, queue_wait, send, opts, send_queue, putters, ncalls,
                   lastcall, last>>

Next ==
    \/ \E p \in Producers : info(p, opts)
    \/ \E p \in Producers : debug(p, opts)
    \/ \E p \in Producers : warning(p, opts)
    \/ \E p \in Producers, e \in EventInputs : event(p, e.event_type, opts @@ e.payload)
    \/ \E p \in Producers, x \in ExceptionOpts : error(p, opts @@ x)
    \/ \E env \in Envs : log_from_queue(env)
    \/ sleep

Spec == Init /\ [][Next]_vars

(* ------------------------- a full queue ------------------------------- *)
\* A state the program reaches when a task makes maxsize info calls in a row
\* right after construction: put does not suspend while the queue has room,
\* so the drain task has not run yet.  The records are numbered -maxsize..-1
\* (they were made before the calls the model counts).  Sending is enabled
\* and every call passes send=True, so that every record is delivered.
Backlog ==
    [i \in 1..maxsize |->
        DelayedLog("info", Message, opts, 1,
                   [id |-> i - maxsize - 1, kwargs |-> opts, at |-> 1])]

InitBacklog ==
    /\ debug_mode = TRUE
    /\ queue_wait = TRUE
    /\ send = TRUE
    /\ opts = [send |-> TRUE]
    /\ send_queue = Backlog
    /\ putters = [p \in Producers |-> NoLog]
    /\ drain = [pc |-> "get", dequeues |-> 0, sleeps |-> 0,
                caught |-> 0]
    /\ clock = 1
    /\ ncalls = 0
    /\ lastcall = NoCall
    /\ last = NoHandling
    /\ applied = NoApplication

\* every public method enqueues by the same put: the calls made onto the full
\* queue are info and error
NextBacklog ==
    \/ \E p \in Producers : info(p, opts)
    \/ \E p \in Producers, x \in ExceptionOpts : error(p, opts @@ x)
    \/ \E p \in Producers : PutResume(p)
    \/ \E env \in Envs : log_from_queue(env)
    \/ sleep

SpecBacklog == InitBacklog /\ [][NextBacklog]_vars

(* ------------------------ fair scheduling ----------------------------- *)
\* A state the program reaches when a task makes a few info calls in a row
\* right after construction, as for the full queue: the first records of
\* Backlog are pending and the drain task has not run yet.
InitPending ==
    /\ debug_mode = TRUE
    /\ queue_wait = TRUE
    /\ send = TRUE
    /\ opts = [send |-> TRUE]
    /\ send_queue = SubSeq(Backlog, 1, MaxCalls + 1)
    /\ putters = [p \in Producers |-> NoLog]
    /\ drain = [pc |-> "get", dequeues |-> 0, sleeps |-> 0,
                caught |-> 0]
    /\ clock = 1
    /\ ncalls = 0
    /\ lastcall = NoCall
    /\ last = NoHandling
    /\ applied = NoApplication

\* The logger with queuing and sending enabled, in debug mode (every call
\* enqueues a record, every handling may deliver): from construction, or with
\* records pending.
InitQueuing == (Init /\ queue_wait /\ send /\ debug_mode) \/ InitPending

\* the exceptions that leave handle_queue_log
Exceptions == {"AttributeError", "LookupError", "HTTPException"}

\* A pass of the try statement of log_from_queue, by what it does to the
\* drain task: the step that log_from_queue makes, and no other action.
DrainPass ==
    /\ drain.pc = "get"
    /\ send_queue # <<>>
    /\ drain.dequeues <= MaxCalls
    /\ \E exc \in Exceptions \cup {"none"} :
          drain' = [drain EXCEPT !.pc = AfterHandling(exc),
                                 !.dequeues = @ + 1,
                                 !.caught = IF exc = "none" THEN @ ELSE @ + 1]

\* The event loop runs the drain task when it can go on: the get returns
\* once the queue holds a record, and asyncio.sleep(queue_wait) ends.  The
\* lookups and sends of a handling return or raise: a handling is one step.
Fairness ==
    /\ WF_drain(DrainPass)
    /\ WF_vars(sleep)

SpecFair == InitQueuing /\ [][Next]_vars /\ Fairness

(* ------------------ the library functions on their own ---------------- *)
\* the level arguments: the five names, other spellings of them, other words
LevelInputs ==
    {"info", "debug", "warning", "error", "event",
     "INFO", "DEBUG", "WARNING", "ERROR", "EVENT", "Info",
     "", "critical", "fatal", "trace", "warn", "EVENTS", "log"}
MessageInputs == {"", "m", "disk full"}

\* the snapshots compared: no object, an object without the attributes, and
\* members with a nick (None, empty or not) and a list of role ids; no
\* snapshot has a status
AttrNames == {"nick", "roles", "status"}
AttrLists == UNION {[1..n -> AttrNames] : n \in 0..MaxAttrs}
Snapshots ==
    {PyNone, [id |-> 1]}
      \cup {[id |-> 1, nick |-> n, roles |-> r] :
               n \in {PyNone, Str(""), Str("A"), Str("B")},
               r \in {List(<<>>), List(<<1, 2>>), List(<<2, 1>>), List(<<1, 2, 3>>),
                      List(<<3, 4>>)}}

\* the arguments of add_diff_fields: an embed without fields or with one, and
\* the diffs that get_object_diff gives on the snapshots
EmbedInputs ==
    {generate_log_embed("m", "event").embed,
     add_field(generate_log_embed("m", "event").embed, "Member", Str("x"))}
DiffInputs ==
    {get_object_diff(b, a, l) : b \in Snapshots, a \in Snapshots, l \in AttrLists}

\* the applications explored, before they are made
Applications ==
    {[fn |-> "generate_log_embed", message |-> m, level |-> l, done |-> FALSE]
        : m \in MessageInputs, l \in LevelInputs}
      \cup {[fn |-> "get_object_diff", before |-> b, after |-> a,
             attrs_to_check |-> l, done |-> FALSE]
               : b \in Snapshots, a \in Snapshots, l \in AttrLists}
      \cup {[fn |-> "add_diff_fields", embed |-> e, diff |-> d, done |-> FALSE]
               : e \in EmbedInputs, d \in DiffInputs}

\* the logger is not used: only `applied` changes
InitLibrary ==
    /\ debug_mode = FALSE
    /\ queue_wait = FALSE
    /\ send = FALSE
    /\ opts = NoKwargs
    /\ send_queue = <<>>
    /\ putters = [p \in Producers |-> NoLog]
    /\ drain = [pc |-> "off", dequeues |-> 0, sleeps |-> 0, caught |-> 0]
    /\ clock = 1
    /\ ncalls = 0
    /\ lastcall = NoCall
    /\ last = NoHandling
    /\ applied \in Applications

Returned(out) == [applied EXCEPT !.done = TRUE] @@ [out |-> out]

Apply_generate_log_embed ==
    /\ applied.fn = "generate_log_embed" /\ ~applied.done
    /\ applied' = Returned(generate_log_embed(applied.message, applied.level))
    /\ UNCHANGED <<debug_mode, queue_wait, send, opts, send_queue, putters, drain,
                   clock, ncalls, lastcall, last>>

Apply_get_object_diff ==
    /\ applied.fn = "get_object_diff" /\ ~applied.done
    /\ applied' = Returned(get_object_diff(applied.before, applied.after,
                                           applied.attrs_to_check))
    /\ UNCHANGED <<debug_mode, queue_wait, send, opts, send_queue, putters, drain,
                   clock, ncalls, lastcall, last>>

Apply_add_diff_fields ==
    /\ applied.fn = "add_diff_fields" /\ ~applied.done
    /\ applied' = Returned(add_diff_fields(applied.embed, applied.diff))
    /\ UNCHANGED <<debug_mode, queue_wait, send, opts, send_queue, putters, drain,
                   clock, ncalls, lastcall, last>>

NextLibrary ==
    \/ Apply_generate_log_embed
    \/ Apply_get_object_diff
    \/ Apply_add_diff_fields

SpecLibrary == InitLibrary /\ [][NextLibrary]_vars

(* ============================ claims ================================== *)
\* the `send` option in effect for a log: the caller's, else the level's default
EffectiveSend(level, kwargs) ==
    IF "send" \in DOMAIN kwargs THEN kwargs["send"] ELSE level = "error"

\* remote delivery is selected for the handled log
DeliverySelected(h) == send /\ EffectiveSend(h.level, h.call.kwargs)

\* the console line of the handled log itself (an event is printed at INFO)
IsLogLine(h, line) ==
    CASE h.level \in {"info", "debug", "warning", "error"} ->
           line = Line(h.level, Message)
      [] h.level = "event" -> line.level = "info"
HasLogLine(h) == \E i \in 1..Len(h.console) : IsLogLine(h, h.console[i])

\* C1: no target lookup and no transmission is made for a log when the global
\* send flag is false or the log's effective send option is false.
C1_ConsoleOnlyNoDelivery ==
    (last # NoHandling /\ ~DeliverySelected(last))
        => (last.lookups = <<>> /\ last.sent = <<>>)

\* an error log handled from the queue with send=False while sending is enabled
C1_Witness ==
    /\ last # NoHandling /\ last.queued /\ last.level = "error"
    /\ send /\ "send" \in DOMAIN last.call.kwargs /\ ~last.call.kwargs["send"]
    /\ HasChannel(last.call.kwargs)

\* C2 as stated: every processed info, warning, error and event log is printed
\* on the console; only debug can be withheld.
C2_Original ==
    (last # NoHandling /\ last.level # "debug") => HasLogLine(last)

\* the event is a member update whose two snapshots give an empty diff
EmptyMemberUpdate(kwargs) ==
    /\ kwargs["event_type"] = "member_update"
    /\ "before" \in DOMAIN kwargs
    /\ "after" \in DOMAIN kwargs
    /\ get_object_diff(kwargs["before"], kwargs["after"], member_update_attrs) = <<>>

\* C2 amended: every processed info, warning and error log is printed whether
\* delivery is skipped or attempted, and so is every debug log that is
\* processed; an event is printed unless it is a member update with an empty
\* diff, or a queued event record whose event_type is empty (which never
\* reaches its handler); a debug call in non-debug mode is not processed.
C2_ConsoleEmission ==
    /\ last # NoHandling =>
         IF last.level = "event"
         THEN HasLogLine(last) <=>
                ~ \/ EmptyMemberUpdate(last.call.kwargs)
                  \/ (last.queued /\ last.call.kwargs["event_type"] = "")
         ELSE HasLogLine(last)
    /\ (lastcall # NoCall /\ lastcall.level = "debug" /\ ~debug_mode)
         => (last = NoHandling \/ last.id # lastcall.id)

\* a warning log printed on the console and then sent, outside debug mode
C2_Witness ==
    /\ last # NoHandling /\ last.level = "warning" /\ ~debug_mode
    /\ HasLogLine(last) /\ last.sent # <<>>

\* C3: the queue never holds more than maxsize (1000) records, and a producer
\* that found it full stays suspended, its record outside the queue, until
\* the drain loop has dequeued a record.
C3_Backpressure ==
    /\ [](Len(send_queue) <= maxsize)
    /\ [](\A p \in Producers : putters[p] # NoLog =>
            \A i \in 1..Len(send_queue) : send_queue[i].call.id # putters[p].call.id)
    /\ [][/\ \A p \in Producers :
               (putters[p] # NoLog /\ Len(send_queue) = maxsize)
                   => putters'[p] = putters[p]
          /\ Len(send_queue') < Len(send_queue)
                   => drain'.dequeues = drain.dequeues + 1]_vars

\* a producer was suspended on the full queue and resumed after a dequeue
C3_Witness ==
    /\ lastcall # NoCall /\ lastcall.outcome = "suspended"
    /\ \A p \in Producers : putters[p] = NoLog
    /\ drain.dequeues = 1
    /\ Len(send_queue) = maxsize
    /\ send_queue[maxsize].call.id = lastcall.id

\* the renderer selected for the event raises (the payload lacks `before`)
RendererRaises(kwargs) ==
    kwargs["event_type"] = "member_update" /\ "before" \notin DOMAIN kwargs
RenderErrors(h) ==
    {i \in 1..Len(h.console) : h.console[i] = Line("error", "Could not render event data")}

\* C4: an exception raised while the drain loop handles a record is caught,
\* gives one console error, reaches no producer, and leaves the loop running.
C4_DrainResilience ==
    queue_wait =>
      /\ drain.pc \in {"get", "sleep"}
      /\ lastcall # NoCall => lastcall.outcome # "raised"
      /\ last # NoHandling =>
           /\ last.queued
           /\ last.exc # "none" =>
                /\ last.loop_console =
                     <<Line("error", "Could not read from log queue: " \o last.exc)>>
                /\ drain.caught > 0
           /\ last.exc = "none" => last.loop_console = <<>>
           /\ (last.level = "event" /\ last.call.kwargs["event_type"] = "")
                 => last.exc = "AttributeError"
           /\ (last.level = "event" /\ RendererRaises(last.call.kwargs))
                 => Cardinality(RenderErrors(last)) = 1

\* the loop is back at the dequeue after an event record without event_type
C4_Witness ==
    /\ queue_wait /\ last # NoHandling /\ last.level = "event"
    /\ last.call.kwargs["event_type"] = "" /\ last.exc = "AttributeError"
    /\ drain.pc = "get" /\ drain.sleeps = 1

\* every lookup of the handling found nothing
NothingResolved(h) ==
    /\ h.lookups # <<>>
    /\ \A i \in 1..Len(h.lookups) : h.lookups[i].result = "none"
TargetWarning(h) ==
    Line("warning", "Could not determine Discord target to send "
                      \o (IF h.level \in {"event", "error"} THEN Upper(h.level)
                          ELSE h.level) \o " log")

\* C5 as stated: when delivery is selected and neither the channel nor the
\* owner resolves, the handler prints the warning naming the level, sends
\* nothing and returns without raising, whatever the options.
C5_Claim ==
    (last # NoHandling /\ DeliverySelected(last) /\ NothingResolved(last))
        => /\ \E i \in 1..Len(last.console) : last.console[i] = TargetWarning(last)
           /\ last.sent = <<>>
           /\ last.exc = "none"

\* C6: discord.Forbidden from a send is caught and the handler returns; any
\* other failure of a send leaves the handler, and the public call when
\* queuing is disabled (lastcall is that call while no later call was made).
C6_ForbiddenOnly ==
    last # NoHandling =>
      \A i \in 1..Len(last.sent) :
        /\ last.sent[i].outcome = "Forbidden" =>
             /\ last.exc = "none"
             /\ (~last.queued /\ lastcall.id = last.id) => lastcall.outcome = "returned"
        /\ last.sent[i].outcome = "HTTPException" =>
             /\ last.exc = "HTTPException"
             /\ (~last.queued /\ lastcall.id = last.id) => lastcall.outcome = "raised"

\* a direct event call whose send was forbidden
C6_Witness ==
    /\ last # NoHandling /\ ~last.queued /\ last.level = "event"
    /\ Len(last.sent) = 1 /\ last.sent[1].outcome = "Forbidden"
    /\ lastcall.outcome = "returned"

\* the default renderer's output for an event type
DefaultMessage(event_type) == "New event: " \o event_type
DefaultEmbed(event_type) ==
    [kind |-> "embed", title |-> "EVENT", description |-> DefaultMessage(event_type),
     color |-> "blurple", timestamp |-> NoTimestamp, fields |-> <<>>]
Unregistered(event_type) == event_type \notin {"member_update", "default"}

\* C7: event rendering raises nothing: when the selected renderer raises, one
\* console error is printed and the default renderer's output is used; an
\* event type without a renderer gets the default renderer's output as well.
C7_RenderFallback ==
    (/\ last # NoHandling /\ last.level = "event"
     /\ ~(last.queued /\ last.call.kwargs["event_type"] = ""))
    => LET kw == last.call.kwargs
           et == kw["event_type"]
       IN /\ last.exc \in {"none", "LookupError", "HTTPException"}
          /\ Cardinality(RenderErrors(last)) = IF RendererRaises(kw) THEN 1 ELSE 0
          /\ (RendererRaises(kw) \/ Unregistered(et)) =>
               /\ \E i \in 1..Len(last.console) :
                     last.console[i] = Line("info", DefaultMessage(et))
               /\ \A i \in 1..Len(last.sent) :
                     [last.sent[i].embed EXCEPT !.timestamp = NoTimestamp]
                        = DefaultEmbed(et)

\* a member update without its snapshots, delivered as the default event
C7_Witness ==
    /\ last # NoHandling /\ last.level = "event"
    /\ RendererRaises(last.call.kwargs)
    /\ Len(last.sent) = 1 /\ last.sent[1].outcome = "ok"

\* C8 as stated: an error log that reaches delivery makes two transmissions
\* to the target, the embed and then the code block.
C8_Original ==
    (last # NoHandling /\ last.level = "error" /\ last.sent # <<>>)
        => /\ Len(last.sent) = 2
           /\ last.sent[1].embed # NoEmbed
           /\ last.sent[2].content.kind = "codeblock"
           /\ last.sent[2].target = last.sent[1].target

\* C8 amended: the embed (with the optional mention) is transmitted first;
\* the code block follows, to the same target, exactly when the first
\* transmission returned normally; it is never transmitted before the embed.
C8_EmbedThenBlock ==
    (last # NoHandling /\ last.level = "error" /\ last.sent # <<>>)
        => /\ last.sent[1].embed # NoEmbed
           /\ last.sent[1].embed.title = "ERROR"
           /\ last.sent[1].content.kind \in {"none", "mention"}
           /\ Len(last.sent) = IF last.sent[1].outcome = "ok" THEN 2 ELSE 1
           /\ Len(last.sent) = 2 =>
                /\ last.sent[2].content.kind = "codeblock"
                /\ last.sent[2].embed = NoEmbed
                /\ last.sent[2].target = last.sent[1].target

\* both transmissions of an error log made
C8_Witness ==
    /\ last # NoHandling /\ last.level = "error"
    /\ Len(last.sent) = 2 /\ last.sent[2].outcome = "ok"

\* C9 as stated: the timestamp of the transmitted embed is the caller's
\* `time` when given, with or without queuing, and else the time of the call.
C9_Claim ==
    last # NoHandling =>
      \A i \in 1..Len(last.sent) :
        last.sent[i].embed # NoEmbed =>
          last.sent[i].embed.timestamp =
            Timestamp(IF "time" \in DOMAIN last.call.kwargs
                      THEN last.call.kwargs["time"] ELSE last.call.at)

\* C10: the drain loop takes one record per pass and sleeps after each,
\* whether the handling returned or raised, before the next dequeue.
C10_OneRecordPerSleep ==
    /\ drain.dequeues = drain.sleeps + (IF drain.pc = "sleep" THEN 1 ELSE 0)
    /\ drain.pc \in {"get", "sleep"}
    /\ Len(send_queue) + drain.dequeues + Cardinality({p \in Producers : putters[p] # NoLog})
         = maxsize + ncalls

\* a second record dequeued after the sleep that followed a raising one
C10_Witness ==
    /\ drain.dequeues = 2 /\ drain.sleeps = 1 /\ drain.caught = 1
    /\ last # NoHandling /\ last.exc = "none"

\* the calls whose records are in the queue, or held by a suspended producer
QueuedIds(q) == {q[i].call.id : i \in 1..Len(q)}
PendingIds(pt) == {pt[p].call.id : p \in {x \in Producers : pt[x] # NoLog}}

\* C11: delivery from the queue is at-most-once: a record is in the queue
\* once; the record handed to a handler is the head and leaves the queue,
\* whether its handling returned or raised; and the queue changes only by
\* losing its head or by getting at its end the record of a new call or of a
\* producer suspended in put, so a handled record never comes back.
C11_AtMostOnce ==
    /\ [](/\ Cardinality(QueuedIds(send_queue)) = Len(send_queue)
          /\ QueuedIds(send_queue) \cap PendingIds(putters) = {}
          /\ \A id \in QueuedIds(send_queue) \cup PendingIds(putters) : id <= ncalls
          /\ (last # NoHandling /\ last.queued)
                => last.id \notin QueuedIds(send_queue) \cup PendingIds(putters))
    /\ [][/\ drain'.dequeues # drain.dequeues =>
               /\ drain'.dequeues = drain.dequeues + 1
               /\ send_queue' = Tail(send_queue)
               /\ putters' = putters
               /\ last'.id = Head(send_queue).call.id
               /\ last'.queued
          /\ \/ send_queue' = send_queue
             \/ send_queue' = Tail(send_queue)
             \/ /\ Len(send_queue') = Len(send_queue) + 1
                /\ SubSeq(send_queue', 1, Len(send_queue)) = send_queue
                /\ send_queue'[Len(send_queue')].call.id
                      \in PendingIds(putters) \cup {ncalls + 1}
         ]_vars

\* the loop took the next record after one whose delivery raised
C11_Witness ==
    /\ drain.dequeues = 2 /\ drain.caught = 1
    /\ last # NoHandling /\ last.queued /\ last.exc = "none"
    /\ last.id = 2 - maxsize - 1
    /\ Head(send_queue).call.id = 3 - maxsize - 1

\* the step is a call of debug
DebugCall == ncalls' = ncalls + 1 /\ lastcall'.level = "debug"

\* C12: with debug mode off a call of debug changes nothing: no console
\* output, no lookup, no transmission (no handling happens), the queue and the
\* drain task are as they were.  With debug mode on the call is handled by the
\* caller and printed at DEBUG (queuing disabled), or one debug record is
\* enqueued, at once or when the full queue has room (queuing enabled).
C12_DebugNoOp ==
    [][DebugCall =>
         IF ~debug_mode
         THEN /\ last' = last
              /\ send_queue' = send_queue
              /\ putters' = putters
              /\ drain' = drain
              /\ lastcall'.outcome = "returned"
         ELSE IF queue_wait
         THEN /\ last' = last
              /\ drain' = drain
              /\ \/ /\ Len(send_queue') = Len(send_queue) + 1
                    /\ SubSeq(send_queue', 1, Len(send_queue)) = send_queue
                    /\ send_queue'[Len(send_queue')].level = "debug"
                    /\ send_queue'[Len(send_queue')].call.id = lastcall'.id
                    /\ putters' = putters
                 \/ /\ full(send_queue)
                    /\ send_queue' = send_queue
                    /\ \E p \in Producers :
                         /\ putters[p] = NoLog
                         /\ putters' = [putters EXCEPT ![p] = putters'[p]]
                         /\ putters'[p].level = "debug"
                         /\ putters'[p].call.id = lastcall'.id
         ELSE /\ last'.id = lastcall'.id
              /\ last'.level = "debug"
              /\ ~last'.queued
              /\ Line("debug", Message) \in {last'.console[i] : i \in 1..Len(last'.console)}
              /\ send_queue' = send_queue
      ]_vars

\* a debug call was made with debug mode off and queuing on, with options
\* that select delivery
C12_Witness ==
    /\ ~debug_mode /\ queue_wait /\ send
    /\ lastcall # NoCall /\ lastcall.level = "debug"
    /\ "send" \in DOMAIN lastcall.kwargs /\ lastcall.kwargs["send"]
    /\ send_queue = <<>> /\ last = NoHandling /\ drain.dequeues = 0

\* the handled event is a member update for which get_object_diff gives the
\* empty diff (a missing snapshot has no truthy attribute)
MemberUpdateEmptyDiff(h) ==
    /\ h # NoHandling /\ h.level = "event"
    /\ h.call.kwargs["event_type"] = "member_update"
    /\ get_object_diff(Get(h.call.kwargs, "before", PyNone),
                       Get(h.call.kwargs, "after", PyNone), member_update_attrs) = <<>>
Suppressed(h) ==
    /\ h.console = <<>> /\ h.lookups = <<>> /\ h.sent = <<>>
    /\ h.exc = "none" /\ h.loop_console = <<>>

\* C13 as stated: whenever the diff of a member update is empty the event is
\* suppressed: nothing on the console, no lookup, no transmission.
C13_Original == MemberUpdateEmptyDiff(last) => Suppressed(last)

\* C13 amended: when the diff is empty and the before snapshot is there (it
\* has an id and a guild) the renderer returns an absent summary and an
\* absent container and the event is suppressed, whatever send and channel
\* are; when the before snapshot is missing the renderer raises after it
\* computed the empty diff, and the event is logged as a default event.
C13_EmptyDiffSuppressed ==
    MemberUpdateEmptyDiff(last) =>
      IF "before" \in DOMAIN last.call.kwargs
      THEN /\ render_member_update_event(last.call.kwargs) = Rendered(PyNone, NoEmbed)
           /\ Suppressed(last)
      ELSE /\ render_member_update_event(last.call.kwargs) = RenderRaised
           /\ last.console[1] = Line("error", "Could not render event data")
           /\ last.console[2] = Line("info", DefaultMessage("member_update"))

\* a queued member update with equal snapshots, with delivery selected and a
\* channel given, was handled
C13_Witness ==
    /\ MemberUpdateEmptyDiff(last) /\ last.queued
    /\ "before" \in DOMAIN last.call.kwargs
    /\ DeliverySelected(last) /\ HasChannel(last.call.kwargs)
    /\ Suppressed(last)

\* the handled log was delivered to the channel its caller named
ViaChannel(h) ==
    /\ h # NoHandling /\ h.sent # <<>>
    /\ Len(h.lookups) = 1
    /\ h.lookups[1].fn = "get_channel" /\ h.lookups[1].result = "found"

\* C14: for an error log delivered to a resolved explicit channel, the first
\* transmission goes to that channel and its content is the mention of the
\* channel's guild owner when critical is true, and absent when critical is
\* false or not given.
C14_CriticalMention ==
    (ViaChannel(last) /\ last.level = "error") =>
      /\ last.sent[1].target = Channel(last.call.kwargs["channel"])
      /\ last.sent[1].content =
           IF "critical" \in DOMAIN last.call.kwargs /\ last.call.kwargs["critical"]
           THEN Mention(Channel(last.call.kwargs["channel"]).guild_owner_mention)
           ELSE NoContent

\* a critical error was delivered, embed and code block, to the channel
C14_Witness ==
    /\ ViaChannel(last) /\ last.level = "error"
    /\ "critical" \in DOMAIN last.call.kwargs /\ last.call.kwargs["critical"]
    /\ Len(last.sent) = 2
    /\ last.sent[1].content.kind = "mention"

\* the level names in the spellings that lower() turns into them, with the
\* title and the color of the container of each
Spelled(name) ==
    CASE name = "info" -> {"info", "INFO", "Info"}
      [] name = "debug" -> {"debug", "DEBUG"}
      [] name = "warning" -> {"warning", "WARNING"}
      [] name = "error" -> {"error", "ERROR"}
      [] name = "event" -> {"event", "EVENT"}
TitleOf == [info |-> "INFO", debug |-> "DEBUG", warning |-> "WARNING",
            error |-> "ERROR", event |-> "EVENT"]
ColorOf == [info |-> "green", debug |-> "dark_green", warning |-> "gold",
            error |-> "red", event |-> "blurple"]
EmbedApplied == applied.fn = "generate_log_embed" /\ applied.done

\* C15 as stated: a container is returned exactly when the level argument is
\* one of info, debug, warning, error, event; every other level input fails.
C15_Original ==
    EmbedApplied => (applied.out.raised <=> applied.level \notin Levels)

\* C15 amended: a container (title the level name uppercased, the level's
\* color, description the message) is returned exactly when the level
\* argument lowercased is one of the five names; every other string fails
\* with the invalid-level error and no container.
C15_LevelEmbed ==
    EmbedApplied =>
      IF \E name \in Levels : applied.level \in Spelled(name)
      THEN \E name \in Levels :
             /\ applied.level \in Spelled(name)
             /\ ~applied.out.raised
             /\ applied.out.embed.kind = "embed"
             /\ applied.out.embed.title = TitleOf[name]
             /\ applied.out.embed.color = ColorOf[name]
             /\ applied.out.embed.description = applied.message
      ELSE applied.out.raised /\ applied.out.embed = NoEmbed

\* generate_log_embed returned a container for the level "WARNING"
C15_Witness ==
    /\ EmbedApplied /\ applied.level = "WARNING" /\ applied.message = "disk full"
    /\ ~applied.out.raised /\ applied.out.embed.title = "WARNING"

\* the value of an attribute on a snapshot as the claim counts it (a missing
\* attribute, or a missing snapshot, gives None), and whether it is truthy
ValueOn(obj, attr) ==
    IF obj # PyNone /\ attr \in DOMAIN obj THEN obj[attr] ELSE PyNone
IsTruthy(v) == v \notin {PyNone, Str(""), List(<<>>)}
FirstPlace(l, attr) == CHOOSE i \in 1..Len(l) :
                          l[i] = attr /\ \A j \in 1..(i - 1) : l[j] # attr
DiffApplied == applied.fn = "get_object_diff" /\ applied.done

\* C16: the diff holds an attribute of the list iff its value is truthy on
\* both snapshots and the two values are unequal (a missing attribute is
\* falsy, not an error); an entry holds the two values as they are; the
\* entries are in the order of the attribute list, one per attribute.
C16_DiffRule ==
    DiffApplied =>
      LET l == applied.attrs_to_check
          out == applied.out
          listed == {l[i] : i \in 1..Len(l)}
      IN /\ \A attr \in AttrNames :
               (\E k \in 1..Len(out) : out[k].attr = attr)
                 <=> /\ attr \in listed
                     /\ IsTruthy(ValueOn(applied.before, attr))
                     /\ IsTruthy(ValueOn(applied.after, attr))
                     /\ ValueOn(applied.before, attr) # ValueOn(applied.after, attr)
         /\ \A k \in 1..Len(out) :
               /\ out[k].before = ValueOn(applied.before, out[k].attr)
               /\ out[k].after = ValueOn(applied.after, out[k].attr)
         /\ \A j, k \in 1..Len(out) :
               j < k => FirstPlace(l, out[j].attr) < FirstPlace(l, out[k].attr)

\* a member whose nick and roles changed, compared on roles and then nick
C16_Witness ==
    /\ DiffApplied
    /\ applied.attrs_to_check = <<"roles", "nick">>
    /\ Len(applied.out) = 2
    /\ applied.out[1] = [attr |-> "roles", before |-> List(<<1, 2>>),
                         after |-> List(<<1, 2, 3>>)]
    /\ applied.out[2] = [attr |-> "nick", before |-> Str("A"), after |-> Str("B")]

\* the attribute names uppercased
UpperName == [nick |-> "NICK", roles |-> "ROLES", status |-> "STATUS"]
\* the fields a diff entry gets: one when its before-value is a list, else two
Width(e) == IF e.before.t = "list" THEN 1 ELSE 2
RECURSIVE FieldsBefore(_, _)
FieldsBefore(diff, k) ==
    IF k = 1 THEN 0 ELSE FieldsBefore(diff, k - 1) + Width(diff[k - 1])
SymDiff(a, b) ==
    {x \in Elems(a) \cup Elems(b) : ~(x \in Elems(a) /\ x \in Elems(b))}
FieldsApplied == applied.fn = "add_diff_fields" /\ applied.done

\* C17: diff rendering appends, for each entry in turn, one field "<ATTR>
\* added" (after list longer than before list) or "<ATTR> removed" (otherwise)
\* whose value joins the string forms of the symmetric difference of the two
\* lists, when the before-value is a list; else the two fields "<ATTR>
\* (before)" and "<ATTR> (after)" with the two values; <ATTR> is the
\* attribute name uppercased, and nothing else of the embed changes.
C17_DiffFields ==
    FieldsApplied =>
      LET diff == applied.diff
          old == Len(applied.embed.fields)
          new == applied.out.fields
      IN /\ [applied.out EXCEPT !.fields = applied.embed.fields] = applied.embed
         /\ Len(new) = old + FieldsBefore(diff, Len(diff) + 1)
         /\ SubSeq(new, 1, old) = applied.embed.fields
         /\ \A k \in 1..Len(diff) :
               LET e == diff[k]
                   at == old + FieldsBefore(diff, k)
               IN IF e.before.t = "list"
                  THEN /\ new[at + 1].name =
                            UpperName[e.attr] \o
                              (IF Len(e.after.v) > Len(e.before.v) THEN " added"
                               ELSE " removed")
                       /\ new[at + 1].value =
                            [joined |-> {ToString(x) : x \in SymDiff(e.before.v, e.after.v)}]
                  ELSE /\ new[at + 1] = [name |-> UpperName[e.attr] \o " (before)",
                                         value |-> e.before]
                       /\ new[at + 2] = [name |-> UpperName[e.attr] \o " (after)",
                                         value |-> e.after]

\* a role removed and a nick changed, added to an embed that has a field
C17_Witness ==
    /\ FieldsApplied
    /\ Len(applied.embed.fields) = 1
    /\ Len(applied.diff) = 2
    /\ applied.diff[1].before = List(<<1, 2, 3>>) /\ applied.diff[1].after = List(<<1, 2>>)
    /\ applied.diff[2].attr = "nick"
    /\ Len(applied.out.fields) = 4
    /\ applied.out.fields[2] = [name |-> "ROLES removed", value |-> [joined |-> {"3"}]]

\* the calls the model follows to their handling: those of the run, and the
\* records pending at the start
FollowedIds == (1..MaxCalls) \cup {i - maxsize - 1 : i \in 1..(MaxCalls + 1)}
\* the record of the call is in the queue, within the records the model's
\* drain loop gets to
Enqueued(id) ==
    \E i \in 1..(MaxCalls + 1 - drain.dequeues) :
        i <= Len(send_queue) /\ send_queue[i].call.id = id
HandedOver(id) == last # NoHandling /\ last.queued /\ last.id = id

\* C18: with queuing enabled and the drain task scheduled fairly, every
\* record in the queue is eventually dequeued and handed to its handler, also
\* when the handling of earlier records raised.
C18_EventuallyHandled ==
    /\ \A id \in FollowedIds : Enqueued(id) ~> HandedOver(id)
    \* the steps scheduled fairly are those of log_from_queue
    /\ [][(drain'.dequeues # drain.dequeues)
            => (DrainPass /\ \E env \in Envs : log_from_queue(env))]_vars

\* the second of the pending records was handed over after the handling of
\* the first raised, and its own handling raised as well
C18_Witness ==
    /\ HandedOver(2 - maxsize - 1)
    /\ drain.dequeues = 2 /\ drain.caught = 2
    /\ drain.pc = "sleep"

====
